---- MODULE Spec2Model ----
(***************************************************************************)
(* NutriGuard (src/app.py): the /analyze pipeline (weather fetch, nutrient *)
(* aggregation, deficiency evaluation, recommendations) and the            *)
(* grocery-list endpoint's handling of the provider's output.              *)
(*                                                                         *)
(* Text is a sequence of one-character strings, so that strip(), lower()   *)
(* and the substring test `s in low` are computed and not assumed.         *)
(* Numbers are exact: totals are whole milligrams, a BMI-adjusted baseline *)
(* is kept in hundredths (default x 10, times the factor 11, 10 or 9 for   *)
(* 1.10, 1 and 0.90), and every comparison is cross-multiplied.  Binary    *)
(* floating-point rounding of the source's doubles is outside the model.   *)
(***************************************************************************)
EXTENDS Integers, Sequences, FiniteSets, TLC

VARIABLES
    WEATHER_API_KEY, \* app.py:22   TRUE iff the weather key is configured
    GROQ_API_KEY,    \* app.py:23   TRUE iff the Groq key is configured
    pc,              \* per /analyze request: where its handler stands
    frame,           \* per request: the handler's parsed locals
    weather,         \* per request: the local `weather`
    totals_mg,       \* per scope: the local `totals_mg`
    calls,           \* per request: external calls issued, with their outcome
    response,        \* per request: what the handler answered
    ev,              \* calculate_deficiency: one evaluation (input, output)
    rc,              \* recommend_foods: one evaluation (input, output)
    gl               \* generate_grocery_list: one request (stage, reply, answer)

vars == <<WEATHER_API_KEY, GROQ_API_KEY, pc, frame, weather, totals_mg, calls,
          response, ev, rc, gl>>

---------------------------------------------------------------------------
(* Bounds of the model *)

\* concurrent /analyze requests (handler invocations alive at once)
NumRequests == 2
\* longest `items` list a request carries
MaxItems == 2
\* longest JSON array the grocery-list provider returns
MaxGroceryItems == 2

Requests == 1..NumRequests

---------------------------------------------------------------------------
(* Text *)

UPPER == <<"A", "B", "C", "D", "E", "F", "G", "H", "I", "J", "K", "L", "M",
           "N", "O", "P", "Q", "R", "S", "T", "U", "V", "W", "X", "Y", "Z">>
LOWER == <<"a", "b", "c", "d", "e", "f", "g", "h", "i", "j", "k", "l", "m",
           "n", "o", "p", "q", "r", "s", "t", "u", "v", "w", "x", "y", "z">>

\* str.lower() on one character
LowerChar(c) ==
    IF \E i \in DOMAIN UPPER : UPPER[i] = c
    THEN LOWER[CHOOSE i \in DOMAIN UPPER : UPPER[i] = c]
    ELSE c

\* str.lower()
lower(s) == [i \in DOMAIN s |-> LowerChar(s[i])]

IsSpace(c) == c = " "

\* str.strip(): drop leading and trailing whitespace
RECURSIVE lstrip(_)
lstrip(s) == IF s # <<>> /\ IsSpace(Head(s)) THEN lstrip(Tail(s)) ELSE s

RECURSIVE rstrip(_)
rstrip(s) ==
    IF s # <<>> /\ IsSpace(s[Len(s)]) THEN rstrip(SubSeq(s, 1, Len(s) - 1)) ELSE s

\* a strip that removes nothing
strip_nothing(s) == s

strip(s) == rstrip(lstrip(s))

\* `sub in s` for strings: sub occurs in s as a contiguous run
Contains(sub, s) ==
    \E i \in 0..(Len(s) - Len(sub)) : SubSeq(s, i + 1, i + Len(sub)) = sub

---------------------------------------------------------------------------
(* JSON values as the handlers see them after request.get_json()/r.json() *)

JNull == [t |-> "null"]
JNum(n) == [t |-> "num", v |-> n]
JStr(s) == [t |-> "str", s |-> s]
JList(a) == [t |-> "list", a |-> a]
JAbsent == [t |-> "absent"]     \* the key is not in the object

\* dict.get(key): None for a key that is absent
Get(x) == IF x.t = "absent" THEN JNull ELSE x

\* Python truthiness of a JSON scalar
Truthy(x) ==
    CASE x.t = "null" -> FALSE
      [] x.t = "num"  -> x.v # 0
      [] x.t = "str"  -> x.s # <<>>
      [] x.t = "list" -> x.a # <<>>
      [] OTHER        -> FALSE

DIGITS == <<"0", "1", "2", "3", "4", "5", "6", "7", "8", "9">>
IsDigit(c) == \E i \in DOMAIN DIGITS : DIGITS[i] = c
DigitVal(c) == (CHOOSE i \in DOMAIN DIGITS : DIGITS[i] = c) - 1

RECURSIVE DigitsVal(_)
DigitsVal(s) ==
    IF s = <<>> THEN 0 ELSE 10 * DigitsVal(SubSeq(s, 1, Len(s) - 1)) + DigitVal(s[Len(s)])

AllDigits(s) == s # <<>> /\ \A i \in DOMAIN s : IsDigit(s[i])

\* float(x): [raised, val].  Strings are parsed as optionally signed decimal
\* integers after strip (the model's numerals carry no fraction or exponent);
\* None and arrays raise TypeError, other text raises ValueError.
float(x) ==
    CASE x.t = "num" -> [raised |-> FALSE, val |-> x.v]
      [] x.t = "str" ->
            LET s == strip(x.s)
                neg == s # <<>> /\ Head(s) = "-"
                body == IF neg THEN Tail(s) ELSE s
            IN IF AllDigits(body)
               THEN [raised |-> FALSE,
                     val |-> IF neg THEN 0 - DigitsVal(body) ELSE DigitsVal(body)]
               ELSE [raised |-> TRUE, val |-> 0]
      [] OTHER -> [raised |-> TRUE, val |-> 0]

\* try: float(x or 0)  except Exception: 0.0      (app.py:262-269, 279-282)
float_or_zero(x) ==
    LET r == float(IF Truthy(x) THEN x ELSE JNum(0))
    IN IF r.raised THEN 0 ELSE r.val

---------------------------------------------------------------------------
(* get_weather  (app.py:44-61) *)

DefaultWeather == [condition |-> "Unknown", temp |-> 25, humidity |-> 50]

\* What the weather service can answer, by name of the case: a failure
\* (network error, timeout, non-success status, malformed body) or the
\* current conditions.
WeatherReply(id) ==
    CASE id = "fail" -> [ok |-> FALSE, condition |-> "", temp |-> 0, humidity |-> 0]
      [] id = "t31"  -> [ok |-> TRUE, condition |-> "Sunny", temp |-> 31, humidity |-> 40]

WeatherReplies == {"fail", "t31"}

\* [called, val]: no call is issued without a key; any exception gives the default
get_weather(key_set, reply) ==
    IF ~key_set THEN [called |-> FALSE, val |-> DefaultWeather]
    ELSE IF ~reply.ok THEN [called |-> TRUE, val |-> DefaultWeather]
    ELSE [called |-> TRUE,
          val |-> [condition |-> reply.condition, temp |-> reply.temp,
                   humidity |-> reply.humidity]]

---------------------------------------------------------------------------
(* get_food_nutrients  (app.py:64-88) *)

\* one element of foods[0]["foodNutrients"]
FN(nm, v, u) ==
    [nutrientName |-> JStr(nm), name |-> JNull, value |-> JNum(v),
     unitName |-> JStr(u), unit |-> JNull]

s_Protein == <<"P", "r", "o", "t", "e", "i", "n">>
s_IronFe == <<"I", "r", "o", "n", ",", " ", "F", "e">>
s_VitC == <<"V", "i", "t", "a", "m", "i", "n", " ", "C", ",", " ", "t", "o", "t", "a", "l", " ", "a", "s", "c", "o", "r", "b", "i", "c", " ", "a", "c", "i", "d">>
s_Ascorbic == <<"T", "o", "t", "a", "l", " ", "A", "s", "c", "o", "r", "b", "i", "c", " ", "A", "c", "i", "d">>
s_CalciumCa == <<"C", "a", "l", "c", "i", "u", "m", ",", " ", "C", "a">>
s_Fiber == <<"F", "i", "b", "e", "r", ",", " ", "t", "o", "t", "a", "l", " ", "d", "i", "e", "t", "a", "r", "y">>
s_Potassium == <<"P", "o", "t", "a", "s", "s", "i", "u", "m", ",", " ", "K">>
s_IronProtein == <<"I", "r", "o", "n", " ", "p", "r", "o", "t", "e", "i", "n">>
s_ProteinPadded == <<" ", "P", "r", "o", "t", "e", "i", "n", " ">>
s_G == <<"G">>
s_g == <<"g">>
s_MG == <<"M", "G">>
s_mg == <<"m", "g">>
s_UG == <<"U", "G">>
s_KCAL == <<"K", "C", "A", "L">>

\* What the food-data service can answer to one search, by name of the case.
\* exc: requests.get or r.json() raised (a network error or a timeout,
\* raise_for_status on a non-success status); otherwise the parsed body.
UsdaReply(id) ==
    CASE id = "network_error" -> [exc |-> TRUE, foods |-> <<>>]
      [] id = "timeout"       -> [exc |-> TRUE, foods |-> <<>>]
      [] id = "http_503"      -> [exc |-> TRUE, foods |-> <<>>]
      [] id = "not_found"     -> [exc |-> FALSE, foods |-> <<>>]
      [] id = "protein_iron"  ->
            [exc |-> FALSE,
             foods |-> << <<FN(s_Protein, 10, s_G), FN(s_IronFe, 2, s_MG),
                            FN(s_Potassium, 7, s_MG)>> >>]
      [] id = "mixed" ->
            [exc |-> FALSE,
             foods |-> << <<FN(s_CalciumCa, 120, s_MG), FN(s_IronProtein, 4, s_g),
                            FN(s_VitC, 30, s_MG), FN(s_Fiber, 3, s_g),
                            FN(s_Ascorbic, 5, s_mg),
                            FN(s_Protein, 1, s_g), FN(s_ProteinPadded, 6, s_G),
                            [FN(s_Potassium, 9, s_MG) EXCEPT !.value = JNull],
                            [FN(s_CalciumCa, 1, s_UG) EXCEPT !.nutrientName = JNull,
                                                             !.name = JStr(s_KCAL),
                                                             !.unitName = JNull],
                            [FN(s_Fiber, 1, s_g) EXCEPT !.value = JStr(s_KCAL)]>>,
                          <<FN(s_Fiber, 50, s_g)>> >>]

UsdaFailures == {"network_error", "timeout", "http_503", "not_found"}
UsdaReplies == UsdaFailures \cup {"protein_iron", "mixed"}

\* nutrients[key] = value on a dict kept as a sequence of [name, val, unit]:
\* an existing key keeps its place and takes the new value
DictSet(d, e) ==
    IF \E i \in DOMAIN d : d[i].name = e.name
    THEN [i \in DOMAIN d |-> IF d[i].name = e.name THEN e ELSE d[i]]
    ELSE Append(d, e)

\* the loop of app.py:76-84 over foodNutrients
RECURSIVE collect_nutrients(_, _)
collect_nutrients(ns, nutrients) ==
    IF ns = <<>> THEN nutrients
    ELSE LET n == Head(ns)
             name == IF Truthy(n.nutrientName) THEN n.nutrientName ELSE n.name
             val == n.value
             unit == IF Truthy(n.unitName) THEN n.unitName ELSE n.unit
             f == float(val)
         IN IF Truthy(name) /\ val.t # "null" /\ ~f.raised
            THEN collect_nutrients(Tail(ns),
                     DictSet(nutrients,
                             [name |-> strip(name.s), val |-> f.val,
                              unit |-> IF Truthy(unit) THEN unit.s ELSE <<>>]))
            ELSE collect_nutrients(Tail(ns), nutrients)

\* the same function without its try/except: a failed request propagates
get_food_nutrients_unguarded(reply) ==
    IF reply.exc THEN [raised |-> TRUE, val |-> <<>>]
    ELSE IF reply.foods = <<>> THEN [raised |-> FALSE, val |-> <<>>]
    ELSE [raised |-> FALSE, val |-> collect_nutrients(reply.foods[1], <<>>)]

\* [raised, val]: every exception is caught and answered with {}
get_food_nutrients(reply) ==
    IF reply.exc THEN [raised |-> FALSE, val |-> <<>>]
    ELSE IF reply.foods = <<>> THEN [raised |-> FALSE, val |-> <<>>]
    ELSE [raised |-> FALSE, val |-> collect_nutrients(reply.foods[1], <<>>)]

---------------------------------------------------------------------------
(* convert_to_mg  (app.py:90-96) *)

GramUnits == {<<"g">>, <<"g", "r", "a", "m">>, <<"g", "r", "a", "m", "s">>}
MilligramUnits == {<<"m", "g">>, <<"m", "i", "l", "l", "i", "g", "r", "a", "m">>, <<"m", "i", "l", "l", "i", "g", "r", "a", "m", "s">>}

convert_to_mg(amount, unit) ==
    LET u == lower(unit)
    IN IF u \in GramUnits THEN amount * 1000
       ELSE IF u \in MilligramUnits THEN amount
       ELSE amount

---------------------------------------------------------------------------
(* NUTRIENT_KEY_MAP  (app.py:98-104), in the dict's order *)

NUTRIENT_KEY_MAP ==
    << [friendly |-> "Protein",   substrings |-> << <<"p", "r", "o", "t", "e", "i", "n">> >>],
       [friendly |-> "Vitamin C", substrings |-> << <<"v", "i", "t", "a", "m", "i", "n", " ", "c">>, <<"a", "s", "c", "o", "r", "b", "i", "c", " ", "a", "c", "i", "d">> >>],
       [friendly |-> "Iron",      substrings |-> << <<"i", "r", "o", "n">> >>],
       [friendly |-> "Calcium",   substrings |-> << <<"c", "a", "l", "c", "i", "u", "m">> >>],
       [friendly |-> "Fiber",     substrings |-> << <<"f", "i", "b", "e", "r">>, <<"d", "i", "e", "t", "a", "r", "y", " ", "f", "i", "b", "e", "r">> >> ] >>

Categories == {NUTRIENT_KEY_MAP[i].friendly : i \in DOMAIN NUTRIENT_KEY_MAP}

NoKey == "None"

\* any(s in low for s in substrings)
AnyIn(substrings, low) == \E j \in DOMAIN substrings : Contains(substrings[j], low)

\* app.py:291-296 from entry i on: the first entry with a trigger in low
RECURSIVE match_from(_, _)
match_from(i, low) ==
    IF i > Len(NUTRIENT_KEY_MAP) THEN NoKey
    ELSE IF AnyIn(NUTRIENT_KEY_MAP[i].substrings, low) THEN NUTRIENT_KEY_MAP[i].friendly
    ELSE match_from(i + 1, low)

\* a matcher that files an unmatched name under a catch-all key
matched_key_catch_all(full_name) ==
    LET k == match_from(1, lower(full_name)) IN IF k = NoKey THEN "Other" ELSE k

matched_key(full_name) == match_from(1, lower(full_name))

---------------------------------------------------------------------------
(* The accumulation of one item's nutrients  (app.py:286-300) *)

EmptyTotals == [k \in {} |-> 0]

\* totals.get(k, 0.0)
TotalGet(totals, k) == IF k \in DOMAIN totals THEN totals[k] ELSE 0

\* totals_mg[k] = totals_mg.get(k, 0.0) + amount_mg
TotalAdd(totals, k, amount_mg) ==
    [x \in DOMAIN totals \cup {k} |->
        IF x = k THEN TotalGet(totals, k) + amount_mg ELSE totals[x]]

\* float(val) * (qty_g / 100.0); the model's quantities make the product a
\* multiple of 100, so the quotient is exact
Scaled(val, qty_g) == (val * qty_g) \div 100

RECURSIVE accumulate(_, _, _)
accumulate(nut, qty_g, totals) ==
    IF nut = <<>> THEN totals
    ELSE LET e == Head(nut)
             actual == Scaled(e.val, qty_g)
             key == matched_key(e.name)
         IN IF key = NoKey
            THEN accumulate(Tail(nut), qty_g, totals)
            ELSE accumulate(Tail(nut), qty_g,
                            TotalAdd(totals, key, convert_to_mg(actual, e.unit)))

---------------------------------------------------------------------------
(* calculate_deficiency  (app.py:106-138) *)

s_female == <<"f", "e", "m", "a", "l", "e">>

\* app.py:107-113, each baseline x 10 (tenths of the source's unit)
BaselineDefaults(gender) ==
    [Protein_g    |-> 500,
     Vitamin_C_mg |-> 900,
     Iron_mg      |-> IF lower(gender) = s_female THEN 180 ELSE 80,
     Calcium_mg   |-> 10000,
     Fiber_g      |-> 300]

\* app.py:114: bmi as the fraction num/den, den > 0;  0 when height_cm <= 0
bmi(height_cm, weight_kg) ==
    IF height_cm > 0
    THEN [num |-> weight_kg * 10000, den |-> height_cm * height_cm]
    ELSE [num |-> 0, den |-> 1]

\* app.py:115-120: the factor x 10 applied to every baseline
\*   `bmi and bmi < 18.5` -> 1.10;  elif `bmi and bmi > 25` -> 0.90;  else none
bmi_factor(height_cm, weight_kg) ==
    LET b == bmi(height_cm, weight_kg)
    IN IF b.num # 0 /\ 2 * b.num < 37 * b.den THEN 11
       ELSE IF b.num # 0 /\ b.num > 25 * b.den THEN 9
       ELSE 10

\* the baseline after app.py:115-120, x 100 (hundredths of the source's unit)
AdjustedBaseline(gender, height_cm, weight_kg) ==
    LET base == BaselineDefaults(gender)
        f == bmi_factor(height_cm, weight_kg)
    IN [k \in DOMAIN base |-> base[k] * f]

\* app.py:125/128 without the x 1000: grams compared with milligrams
gram_deficient_no_scale(have_mg, base100) == have_mg * 500 < base100 * 3

\* app.py:125, 128:  have_mg < (baseline_g * 1000.0) * 0.6
gram_deficient(have_mg, base100) == have_mg < base100 * 6

\* app.py:135:  have < need * 0.6
mg_deficient(have, base100) == have * 500 < base100 * 3

\* One entry of the report.  The shortfall is kept exact, in thousandths of
\* its unit; the rendering round(x, 2) to text is not modelled.
Shortfall(key, thousandths, unit) == [key |-> key, need |-> thousandths, unit |-> unit]

\* the report as the dict's insertion order: Protein, Fiber, then the mg loop
calculate_deficiency(total_nutrients_mg, gender, height_cm, weight_kg) ==
    LET baseline == AdjustedBaseline(gender, height_cm, weight_kg)
        protein_mg == TotalGet(total_nutrients_mg, "Protein")
        fiber_mg == TotalGet(total_nutrients_mg, "Fiber")
        p == IF gram_deficient(protein_mg, baseline.Protein_g)
             THEN << Shortfall("Protein", baseline.Protein_g * 10 - protein_mg, "g") >>
             ELSE <<>>
        f == IF gram_deficient(fiber_mg, baseline.Fiber_g)
             THEN << Shortfall("Fiber", baseline.Fiber_g * 10 - fiber_mg, "g") >>
             ELSE <<>>
        mg(short_key, need100) ==
             LET have == TotalGet(total_nutrients_mg, short_key)
             IN IF mg_deficient(have, need100)
                THEN << Shortfall(short_key, need100 * 10 - have * 1000, "mg") >>
                ELSE <<>>
    IN p \o f \o mg("Vitamin C", baseline.Vitamin_C_mg)
         \o mg("Iron", baseline.Iron_mg)
         \o mg("Calcium", baseline.Calcium_mg)

---------------------------------------------------------------------------
(* recommend_foods  (app.py:140-154) *)

\* app.py:141-147
base(n) ==
    CASE n = "Protein"   -> << <<"Chicken", "27 g">>, <<"Eggs", "13 g">>, <<"Paneer", "18 g">> >>
      [] n = "Iron"      -> << <<"Spinach", "2.7 mg">>, <<"Liver", "6.5 mg">>, <<"Beans", "3.7 mg">> >>
      [] n = "Calcium"   -> << <<"Milk", "120 mg">>, <<"Curd", "80 mg">>, <<"Almonds", "75 mg">> >>
      [] n = "Fiber"     -> << <<"Oats", "10 g">>, <<"Apple", "4.5 g">>, <<"Carrots", "3 g">> >>
      [] n = "Vitamin C" -> << <<"Orange", "53 mg">>, <<"Guava", "200 mg">>, <<"Kiwi", "90 mg">> >>
      [] OTHER           -> <<>>

\* A weather argument: None, or a dict with the keys it holds
NoWeather == [t |-> "none", keys |-> {}, temp |-> 0]
WeatherDict(w) == [t |-> "dict", keys |-> {"condition", "temp", "humidity"}, temp |-> w.temp]

\* app.py:148:  weather and weather.get("temp", 0) > 30
IsHot(w) ==
    /\ w.t = "dict"
    /\ w.keys # {}
    /\ (IF "temp" \in w.keys THEN w.temp ELSE 0) > 30

temp_foods(w) == IF IsHot(w) THEN <<"Cucumber", "Yogurt">> ELSE <<"Soup", "Eggs">>

\* app.py:150-151
RECURSIVE extend_all(_, _)
extend_all(keys, rec) ==
    IF keys = <<>> THEN rec ELSE extend_all(Tail(keys), rec \o base(Head(keys)))

\* the return without the slice
no_slice(rec) == rec

\* app.py:154:  rec[:10]
first_ten(rec) == SubSeq(rec, 1, IF Len(rec) < 10 THEN Len(rec) ELSE 10)

\* the weather entries put in front of the table entries instead of after
recommend_foods_weather_first(defic_keys, w) ==
    LET tf == temp_foods(w)
        rec == [i \in DOMAIN tf |-> <<tf[i], "-", "-">>]
               \o extend_all(defic_keys, <<>>)
    IN first_ten(rec)

\* defic_keys: the report's keys in iteration order
recommend_foods(defic_keys, w) ==
    LET tf == temp_foods(w)
        rec == extend_all(defic_keys, <<>>)
               \o [i \in DOMAIN tf |-> <<tf[i], "-", "-">>]
    IN first_ten(rec)

ReportKeys(defic) == [i \in DOMAIN defic |-> defic[i].key]

---------------------------------------------------------------------------
(* /analyze  (app.py:256-317) *)

\* The request bodies the model sends follow the endpoint's shape
\* {city, items: [{name, qty}], gender, height, weight}: a key may be absent
\* or null, a number may come as text, text may be blank; city, gender and
\* item names are text when present, and every item is an object.
s_Pune == <<"P", "u", "n", "e">>
s_PunePadded == <<" ", "P", "u", "n", "e", " ">>
s_blank == <<" ", " ">>
s_rice == <<"r", "i", "c", "e">>
s_eggPadded == <<" ", "e", "g", "g", " ">>
s_abc == <<"a", "b", "c">>
s_200 == <<"2", "0", "0">>
s_Female == <<"F", "e", "m", "a", "l", "e">>
s_male == <<"m", "a", "l", "e">>

Item(name, qty) == [name |-> name, qty |-> qty]

ItemPool ==
    { Item(JStr(s_rice), JNum(100)),
      Item(JStr(s_eggPadded), JStr(s_200)),
      Item(JNull, JNum(100)),
      Item(JStr(s_blank), JNum(100)),
      Item(JStr(s_rice), JNum(0)),
      Item(JStr(s_rice), JNum(0 - 100)),
      Item(JStr(s_rice), JStr(s_abc)) }

ItemLists == UNION {[1..k -> ItemPool] : k \in 0..MaxItems}

CityPool == {JAbsent, JNull, JStr(<<>>), JStr(s_blank), JStr(s_PunePadded)}

Body(city, items, gender, height, weight) ==
    [city |-> city, items |-> items, gender |-> gender, height |-> height,
     weight |-> weight]

\* every body within the bounds, for one request at a time
Bodies ==
    { Body(c, its, g, hw[1], hw[2]) :
        c \in CityPool,
        its \in {JAbsent} \cup {JList(l) : l \in ItemLists},
        g \in {JAbsent},
        hw \in { <<JNum(170), JNum(70)>>, <<JStr(s_abc), JNull>> } }
    \cup
    { Body(c, JList(<<it>>), JStr(s_Female), JStr(s_200), JNum(101)) :
        c \in CityPool, it \in ItemPool }

\* the bodies sent when several requests run at once
ConcurrentBodies ==
    { Body(c, JList(l), JAbsent, JNum(170), JNum(70)) :
        c \in {JStr(s_Pune)},
        l \in { << Item(JStr(s_rice), JNum(100)) >>,
                << Item(JStr(s_rice), JNum(0)), Item(JStr(s_eggPadded), JStr(s_200)) >>,
                << Item(JStr(s_rice), JNum(100)), Item(JStr(s_eggPadded), JStr(s_200)) >> } }
    \cup { Body(JStr(s_blank), JList(<< Item(JStr(s_rice), JNum(100)) >>), JAbsent,
                 JNum(170), JNum(70)) }

NoFrame == [data |-> Body(JAbsent, JAbsent, JAbsent, JAbsent, JAbsent),
            city |-> <<>>, items |-> <<>>, gender |-> <<>>, height |-> 0,
            weight |-> 0, i |-> 0]

NoResponse ==
    [status |-> 0, error |-> "", weather |-> DefaultWeather,
     total_nutrients |-> EmptyTotals, deficient |-> <<>>, recommendations |-> <<>>]

Call(svc, q, reply) == [svc |-> svc, q |-> q, reply |-> reply]

\* (data.get(key) or "").strip()          (app.py:259, 278)
stripped_text(x) == strip(IF Truthy(Get(x)) THEN x.s ELSE <<>>)

\* the skip test with `qty_g < 0`
skipped_negative_only(name, qty_g) == name = <<>> \/ qty_g < 0

\* app.py:283:  if not name or qty_g <= 0: continue
skipped(name, qty_g) == name = <<>> \/ qty_g <= 0

\* one module-level totals_mg for every request
shared_scope(r) == 1

\* totals_mg is a local of the handler: each invocation has its own
totals_scope(r) == r

item_name(it) == stripped_text(it.name)
item_qty(it) == float_or_zero(Get(it.qty))

\* app.py:305-310, the amount kept exact in thousandths of its unit
human_totals(totals) ==
    [k \in DOMAIN totals |->
        IF k \in {"Protein", "Fiber"}
        THEN [amount |-> totals[k], unit |-> "g"]
        ELSE [amount |-> totals[k] * 1000, unit |-> "mg"]]

\* app.py:258-274: parse the body, reject a missing city, else go on to
\* the weather call
Begin(r, bodies) ==
    /\ pc[r] = "idle"
    /\ \E data \in bodies :
         LET city == stripped_text(data.city)
             items == IF data.items.t = "absent" THEN <<>> ELSE data.items.a
             gender == IF data.gender.t = "absent" THEN s_male ELSE data.gender.s
             height == float_or_zero(Get(data.height))
             weight == float_or_zero(Get(data.weight))
         IN /\ frame' = [frame EXCEPT ![r] =
                           [data |-> data, city |-> city, items |-> items,
                            gender |-> gender, height |-> height, weight |-> weight,
                            i |-> 1]]
            /\ IF city = <<>>
               THEN /\ response' = [response EXCEPT ![r] =
                                       [NoResponse EXCEPT !.status = 400,
                                                          !.error = "City required"]]
                    /\ pc' = [pc EXCEPT ![r] = "done"]
               ELSE /\ pc' = [pc EXCEPT ![r] = "weather"]
                    /\ UNCHANGED response
    /\ UNCHANGED <<WEATHER_API_KEY, GROQ_API_KEY, weather, totals_mg, calls, ev, rc, gl>>

\* app.py:274-276:  weather = get_weather(city);  totals_mg = {}
GetWeather(r, replies) ==
    /\ pc[r] = "weather"
    /\ \E id \in replies :
         LET w == get_weather(WEATHER_API_KEY, WeatherReply(id))
         IN /\ weather' = [weather EXCEPT ![r] = w.val]
            /\ calls' = [calls EXCEPT ![r] =
                           IF w.called THEN Append(@, Call("weather", frame[r].city, id))
                           ELSE @]
    /\ totals_mg' = [totals_mg EXCEPT ![totals_scope(r)] = EmptyTotals]
    /\ pc' = [pc EXCEPT ![r] = "loop"]
    /\ UNCHANGED <<WEATHER_API_KEY, GROQ_API_KEY, frame, response, ev, rc, gl>>

\* app.py:277-284: an item the loop passes over
SkipItem(r) ==
    /\ pc[r] = "loop"
    /\ frame[r].i <= Len(frame[r].items)
    /\ LET it == frame[r].items[frame[r].i]
       IN skipped(item_name(it), item_qty(it))
    /\ frame' = [frame EXCEPT ![r].i = @ + 1]
    /\ UNCHANGED <<WEATHER_API_KEY, GROQ_API_KEY, pc, weather, totals_mg, calls,
                   response, ev, rc, gl>>

\* app.py:277-300: an item that is looked up and accumulated.  An exception
\* that leaves the handler ends the request with the server's error answer.
FetchItem(r, replies) ==
    /\ pc[r] = "loop"
    /\ frame[r].i <= Len(frame[r].items)
    /\ LET it == frame[r].items[frame[r].i]
           name == item_name(it)
           qty_g == item_qty(it)
       IN /\ ~skipped(name, qty_g)
          /\ \E id \in replies :
               LET nut == get_food_nutrients(UsdaReply(id))
               IN /\ calls' = [calls EXCEPT ![r] = Append(@, Call("usda", name, id))]
                  /\ IF nut.raised
                     THEN /\ response' = [response EXCEPT ![r] =
                                            [NoResponse EXCEPT !.status = 500]]
                          /\ pc' = [pc EXCEPT ![r] = "done"]
                          /\ UNCHANGED <<frame, totals_mg>>
                     ELSE /\ totals_mg' =
                               [totals_mg EXCEPT ![totals_scope(r)] =
                                   accumulate(nut.val, qty_g, @)]
                          /\ frame' = [frame EXCEPT ![r].i = @ + 1]
                          /\ UNCHANGED <<pc, response>>
    /\ UNCHANGED <<WEATHER_API_KEY, GROQ_API_KEY, weather, ev, rc, gl>>

\* app.py:302-317: the loop is over
Respond(r) ==
    /\ pc[r] = "loop"
    /\ frame[r].i > Len(frame[r].items)
    /\ LET totals == totals_mg[totals_scope(r)]
           defic == calculate_deficiency(totals, frame[r].gender, frame[r].height,
                                         frame[r].weight)
           rec == recommend_foods(ReportKeys(defic), WeatherDict(weather[r]))
       IN response' = [response EXCEPT ![r] =
                          [status |-> 200, error |-> "", weather |-> weather[r],
                           total_nutrients |-> human_totals(totals),
                           deficient |-> defic, recommendations |-> rec]]
    /\ pc' = [pc EXCEPT ![r] = "done"]
    /\ UNCHANGED <<WEATHER_API_KEY, GROQ_API_KEY, frame, weather, totals_mg, calls,
                   ev, rc, gl>>

---------------------------------------------------------------------------
(* generate_grocery_list  (app.py:366-515) *)

\* The completion's text, as a sequence of pieces: a ```json fence, a bare
\* ``` fence, whitespace, prose that is no JSON, or the text of one JSON value.
Piece(k, v) == [k |-> k, v |-> v]
FenceJson == Piece("fence_json", JNull)
Fence == Piece("fence", JNull)
Space == Piece("space", JNull)
Prose == Piece("prose", JNull)
JsonText(v) == Piece("json", v)

JObj(keys) == [t |-> "obj", keys |-> keys]

\* str.strip() on pieces
RECURSIVE strip_pieces(_)
strip_pieces(s) ==
    IF s # <<>> /\ Head(s) = Space THEN strip_pieces(Tail(s))
    ELSE IF s # <<>> /\ s[Len(s)] = Space THEN strip_pieces(SubSeq(s, 1, Len(s) - 1))
    ELSE s

\* `mark in s`: "```" is found in a ```json fence as well
HasMark(s, marks) == \E i \in DOMAIN s : s[i].k \in marks

\* s.split(mark)[0]: what stands before the first mark
BeforeMark(s, marks) ==
    IF HasMark(s, marks)
    THEN SubSeq(s, 1, (CHOOSE i \in DOMAIN s :
                          /\ s[i].k \in marks
                          /\ \A j \in 1..(i - 1) : s[j].k \notin marks) - 1)
    ELSE s

\* s.split(mark)[1] for an s that holds the mark: what stands between the
\* first mark and the next one
AfterFirstMark(s, marks) ==
    LET first == CHOOSE i \in DOMAIN s :
                    /\ s[i].k \in marks
                    /\ \A j \in 1..(i - 1) : s[j].k \notin marks
    IN BeforeMark(SubSeq(s, first + 1, Len(s)), marks)

\* app.py:468-471
strip_code_fence(ai_response) ==
    IF HasMark(ai_response, {"fence_json"})
    THEN strip_pieces(BeforeMark(AfterFirstMark(ai_response, {"fence_json"}),
                                 {"fence", "fence_json"}))
    ELSE IF HasMark(ai_response, {"fence", "fence_json"})
    THEN strip_pieces(BeforeMark(AfterFirstMark(ai_response, {"fence", "fence_json"}),
                                 {"fence", "fence_json"}))
    ELSE ai_response

\* json.loads: [raised, val]; JSONDecodeError unless the text is one JSON
\* value with nothing but whitespace around it
json_loads(text) ==
    LET body == SelectSeq(text, LAMBDA x : x # Space)
    IN IF Len(body) = 1 /\ body[1].k = "json"
       THEN [raised |-> FALSE, val |-> body[1].v]
       ELSE [raised |-> TRUE, val |-> JNull]

REQUIRED_FIELDS == {"category", "name", "quantity"}

GroceryItem(category, name, quantity) ==
    [category |-> category, name |-> name, quantity |-> quantity]

\* app.py:493-501
fallback_list ==
    << GroceryItem("Fruits & Vegetables", "Spinach", "500g"),
       GroceryItem("Fruits & Vegetables", "Tomatoes", "1kg"),
       GroceryItem("Proteins", "Chicken Breast", "1kg"),
       GroceryItem("Proteins", "Eggs", "12 pieces"),
       GroceryItem("Grains & Cereals", "Brown Rice", "2kg"),
       GroceryItem("Dairy & Alternatives", "Low-fat Milk", "2L"),
       GroceryItem("Snacks & Beverages", "Green Tea", "100g") >>

FALLBACK_NOTE == "Using fallback list due to AI response format issue"

Answer(status, error, kind, list, note) ==
    [status |-> status, error |-> error, kind |-> kind, grocery_list |-> list,
     note |-> note]

NoAnswer == Answer(0, "", "none", <<>>, "")

\* app.py:477-483: the exception the validation raises, "" for none.
\* `k in item` raises TypeError on a number.
validation_error(grocery_list) ==
    IF grocery_list.t # "list" THEN "ValueError: Response is not a list"
    ELSE IF \E i \in DOMAIN grocery_list.a : grocery_list.a[i].t # "obj"
         THEN IF \E i \in DOMAIN grocery_list.a :
                    /\ grocery_list.a[i].t # "obj"
                    /\ \A j \in 1..(i - 1) :
                          /\ grocery_list.a[j].t = "obj"
                          /\ REQUIRED_FIELDS \subseteq grocery_list.a[j].keys
              THEN "TypeError: argument is not iterable"
              ELSE "ValueError: Missing required fields in grocery item"
    ELSE IF \E i \in DOMAIN grocery_list.a : ~(REQUIRED_FIELDS \subseteq grocery_list.a[i].keys)
         THEN "ValueError: Missing required fields in grocery item"
    ELSE ""

\* app.py:454-515 from the provider's reply on.
\* reply.kind: "network_error", "timeout", "http_error" (raise_for_status),
\* or "ok"; reply.has_content: result["choices"][0]["message"]["content"]
\* is there.
grocery_answer(reply) ==
    IF reply.kind # "ok"
    THEN Answer(500, "AI service error", "error", <<>>, "")
    ELSE IF ~reply.has_content
    THEN Answer(500, "KeyError", "error", <<>>, "")
    ELSE LET ai_response == strip_code_fence(strip_pieces(reply.content))
             parsed == json_loads(ai_response)
         IN IF parsed.raised
            THEN Answer(200, "", "fallback", fallback_list, FALLBACK_NOTE)
            ELSE IF validation_error(parsed.val) # ""
            THEN Answer(500, validation_error(parsed.val), "error", <<>>, "")
            ELSE Answer(200, "", "list", parsed.val.a, "")

\* What the provider can say: the elements of a JSON array ...
ElementPool ==
    { JObj({"category", "name", "quantity"}),
      JObj({"category", "name", "quantity", "brand"}),
      JObj({"category", "name"}),
      JObj({"item"}),
      JNum(5) }

\* ... the JSON values ...
JsonPool ==
    {JList(a) : a \in UNION {[1..n -> ElementPool] : n \in 0..MaxGroceryItems}}
    \cup {JObj({"grocery_list"}), JNum(3), JNull}

\* ... and the texts around them
ContentPool ==
    UNION { { <<JsonText(v)>>,
              <<Space, JsonText(v), Space>>,
              <<Prose, JsonText(v)>>,
              <<FenceJson, Space, JsonText(v), Space, Fence>>,
              <<Prose, Space, FenceJson, JsonText(v), Fence, Space, Prose>>,
              <<Fence, JsonText(v), Fence>>,
              <<Prose, Fence, Space, JsonText(v)>>,
              <<Fence, Prose, Fence, FenceJson, JsonText(v), Fence>>,
              <<JsonText(v), JsonText(v)>> } : v \in JsonPool }
    \cup { <<>>, <<Prose>>, <<FenceJson, Fence>>, <<FenceJson, Prose, Fence>> }

GroqReply(kind, has_content, content) ==
    [kind |-> kind, has_content |-> has_content, content |-> content]

GroqReplies ==
    {GroqReply(k, FALSE, <<>>) : k \in {"network_error", "timeout", "http_error", "ok"}}
    \cup {GroqReply("ok", TRUE, c) : c \in ContentPool}

GlIdle == [stage |-> "idle", reply |-> GroqReply("none", FALSE, <<>>), answer |-> NoAnswer]

\* app.py:375-383, 454: without a key the handler answers 500, else it posts
GroceryBegin ==
    /\ gl.stage = "idle"
    /\ IF ~GROQ_API_KEY
       THEN gl' = [gl EXCEPT !.stage = "done",
                             !.answer = Answer(500, "GROQ_API_KEY not set", "error",
                                               <<>>, "")]
       ELSE gl' = [gl EXCEPT !.stage = "posted"]
    /\ UNCHANGED <<WEATHER_API_KEY, GROQ_API_KEY, pc, frame, weather, totals_mg,
                   calls, response, ev, rc>>

\* app.py:454-515: the provider's reply arrives (or the post fails)
GroceryReply ==
    /\ gl.stage = "posted"
    /\ \E reply \in GroqReplies :
         gl' = [gl EXCEPT !.stage = "done", !.reply = reply,
                          !.answer = grocery_answer(reply)]
    /\ UNCHANGED <<WEATHER_API_KEY, GROQ_API_KEY, pc, frame, weather, totals_mg,
                   calls, response, ev, rc>>

---------------------------------------------------------------------------
(* calculate_deficiency and recommend_foods on their own *)

EvIdle == [stage |-> "idle", totals |-> EmptyTotals, gender |-> <<>>, height |-> 0,
           weight |-> 0, baseline |-> BaselineDefaults(<<>>), report |-> <<>>]
RcIdle == [stage |-> "idle", keys |-> <<>>, weather |-> NoWeather, out |-> <<>>]

\* Totals around every threshold: 60% of the default x 0.9, x 1 and x 1.1 is
\* 27000/30000/33000 mg of protein, 16200/18000/19800 mg of fiber,
\* 48.6/54/59.4 mg of vitamin C, 540/600/660 mg of calcium and
\* 4.32/4.8/5.28 (9.72/10.8/11.88 for women) mg of iron.
TotalsGrid(c) ==
    CASE c = "Protein"   -> {26999, 27000, 30000}
      [] c = "Fiber"     -> {17999, 18000, 19800}
      [] c = "Vitamin C" -> {53, 54, 60}
      [] c = "Iron"      -> {4, 5, 11}
      [] c = "Calcium"   -> {0, 599, 659, 660}

\* a totals map from one choice per category; a choice of -1 leaves the
\* category out of the map
TotalsOf(choice) ==
    [c \in {x \in DOMAIN choice : choice[x] # 0 - 1} |-> choice[c]]

\* <<height_cm, weight_kg>>: no height, a negative height, BMI 18.25, 18.5,
\* 20, 25 and 25.25, no weight, a negative weight
BodyPool ==
    { <<0, 70>>, <<0 - 170, 70>>, <<200, 73>>, <<200, 74>>, <<200, 80>>,
      <<200, 100>>, <<200, 101>>, <<200, 0>>, <<170, 0 - 50>> }

GenderPool == {s_male, s_Female, s_abc}

InitEvaluate ==
    /\ WEATHER_API_KEY = FALSE
    /\ GROQ_API_KEY = FALSE
    /\ pc = [r \in Requests |-> "idle"]
    /\ frame = [r \in Requests |-> NoFrame]
    /\ weather = [r \in Requests |-> DefaultWeather]
    /\ totals_mg = [r \in Requests |-> EmptyTotals]
    /\ calls = [r \in Requests |-> <<>>]
    /\ response = [r \in Requests |-> NoResponse]
    /\ \E p \in TotalsGrid("Protein") \cup {0 - 1},
          f \in TotalsGrid("Fiber") \cup {0 - 1},
          v \in TotalsGrid("Vitamin C") \cup {0 - 1},
          i \in TotalsGrid("Iron") \cup {0 - 1},
          c \in TotalsGrid("Calcium") \cup {0 - 1},
          g \in GenderPool, b \in BodyPool :
            LET choice == [k \in Categories |->
                             CASE k = "Protein" -> p [] k = "Fiber" -> f
                               [] k = "Vitamin C" -> v [] k = "Iron" -> i
                               [] k = "Calcium" -> c]
            IN ev = [EvIdle EXCEPT !.stage = "in", !.totals = TotalsOf(choice),
                                   !.gender = g, !.height = b[1], !.weight = b[2]]
    /\ rc = RcIdle
    /\ gl = GlIdle

Evaluate ==
    /\ ev.stage = "in"
    /\ ev' = [ev EXCEPT
                !.stage = "out",
                !.baseline = AdjustedBaseline(ev.gender, ev.height, ev.weight),
                !.report = calculate_deficiency(ev.totals, ev.gender, ev.height,
                                                ev.weight)]
    /\ UNCHANGED <<WEATHER_API_KEY, GROQ_API_KEY, pc, frame, weather, totals_mg,
                   calls, response, rc, gl>>

NextEvaluate == Evaluate

SpecEvaluate == InitEvaluate /\ [][NextEvaluate]_vars

\* every report: the tracked categories in any order, none twice
ReportKeyPool ==
    {ks \in UNION {[1..n -> Categories] : n \in 0..Cardinality(Categories)} :
        \A a, b \in DOMAIN ks : a # b => ks[a] # ks[b]}

\* None, {}, a dict without "temp", and dicts with a temp around 30
WeatherPool ==
    {NoWeather, [t |-> "dict", keys |-> {}, temp |-> 0],
     [t |-> "dict", keys |-> {"condition"}, temp |-> 0]} \cup
    {[t |-> "dict", keys |-> {"condition", "temp", "humidity"}, temp |-> x] :
        x \in {25, 30, 31, 35}}

InitRecommend ==
    /\ WEATHER_API_KEY = FALSE
    /\ GROQ_API_KEY = FALSE
    /\ pc = [r \in Requests |-> "idle"]
    /\ frame = [r \in Requests |-> NoFrame]
    /\ weather = [r \in Requests |-> DefaultWeather]
    /\ totals_mg = [r \in Requests |-> EmptyTotals]
    /\ calls = [r \in Requests |-> <<>>]
    /\ response = [r \in Requests |-> NoResponse]
    /\ ev = EvIdle
    /\ \E ks \in ReportKeyPool, w \in WeatherPool :
         rc = [RcIdle EXCEPT !.stage = "in", !.keys = ks, !.weather = w]
    /\ gl = GlIdle

Recommend ==
    /\ rc.stage = "in"
    /\ rc' = [rc EXCEPT !.stage = "out", !.out = recommend_foods(rc.keys, rc.weather)]
    /\ UNCHANGED <<WEATHER_API_KEY, GROQ_API_KEY, pc, frame, weather, totals_mg,
                   calls, response, ev, gl>>

NextRecommend == Recommend

SpecRecommend == InitRecommend /\ [][NextRecommend]_vars

\* app.py:302-303: the report of calculate_deficiency goes to recommend_foods
\* with the weather of the request, a dict that always holds "temp"
AnalyzeWeatherPool == {w \in WeatherPool : w.t = "dict" /\ "temp" \in w.keys}

DeficToRecommend ==
    /\ ev.stage = "out"
    /\ rc.stage = "idle"
    /\ \E w \in AnalyzeWeatherPool :
         rc' = [rc EXCEPT !.stage = "in", !.keys = ReportKeys(ev.report),
                          !.weather = w]
    /\ UNCHANGED <<WEATHER_API_KEY, GROQ_API_KEY, pc, frame, weather, totals_mg,
                   calls, response, ev, gl>>

NextAdvise == Evaluate \/ DeficToRecommend \/ Recommend

SpecAdvise == InitEvaluate /\ [][NextAdvise]_vars

---------------------------------------------------------------------------
(* Specifications *)

InitAnalyze ==
    /\ WEATHER_API_KEY \in BOOLEAN
    /\ GROQ_API_KEY = FALSE
    /\ pc = [r \in Requests |-> "idle"]
    /\ frame = [r \in Requests |-> NoFrame]
    /\ weather = [r \in Requests |-> DefaultWeather]
    /\ totals_mg = [r \in Requests |-> EmptyTotals]
    /\ calls = [r \in Requests |-> <<>>]
    /\ response = [r \in Requests |-> NoResponse]
    /\ ev = EvIdle
    /\ rc = RcIdle
    /\ gl = GlIdle

\* one /analyze request, over every body within the bounds
Next ==
    \/ Begin(1, Bodies)
    \/ GetWeather(1, WeatherReplies)
    \/ SkipItem(1)
    \/ FetchItem(1, UsdaReplies)
    \/ Respond(1)

Spec == InitAnalyze /\ [][Next]_vars

\* NumRequests /analyze requests whose handlers interleave at every step
NextConcurrent ==
    \E r \in Requests :
        \/ Begin(r, ConcurrentBodies)
        \/ GetWeather(r, WeatherReplies)
        \/ SkipItem(r)
        \/ FetchItem(r, {"timeout", "protein_iron"})
        \/ Respond(r)

SpecConcurrent == InitAnalyze /\ [][NextConcurrent]_vars

---------------------------------------------------------------------------
(* Properties of /analyze *)

\* a city that is missing, null, empty or only whitespace, read off the body
CityBlank(body) ==
    \/ body.city.t \in {"absent", "null"}
    \/ body.city.t = "str" /\ \A k \in DOMAIN body.city.s : body.city.s[k] = " "

\* an item with a name that is not blank and a quantity that is a number
\* above zero, read off the body
NameBlank(it) ==
    \/ it.name.t \in {"absent", "null"}
    \/ it.name.t = "str" /\ \A k \in DOMAIN it.name.s : it.name.s[k] = " "

QtyPositive(it) ==
    /\ it.qty.t \in {"num", "str"}
    /\ ~float(it.qty).raised
    /\ float(it.qty).val > 0

ProperItem(it) == ~NameBlank(it) /\ QtyPositive(it)

UsdaCalls(r) == SelectSeq(calls[r], LAMBDA c : c.svc = "usda")
WeatherCalls(r) == SelectSeq(calls[r], LAMBDA c : c.svc = "weather")

\* the items the loop of request r has passed
PassedItems(r) == SubSeq(frame[r].items, 1, frame[r].i - 1)

\* C1: a request whose city is missing, empty or only whitespace is answered
\* with HTTP 400, and no weather or nutrient call is ever issued for it,
\* whatever its items and profile fields hold.
C1_MissingCityRejected ==
    \A r \in Requests :
        (pc[r] # "idle" /\ CityBlank(frame[r].data)) =>
            /\ pc[r] = "done"
            /\ response[r].status = 400
            /\ calls[r] = <<>>

C1_Witness ==
    /\ WEATHER_API_KEY
    /\ pc[1] = "done"
    /\ response[1].status = 400
    /\ frame[1].data.city = JStr(s_blank)
    /\ frame[1].data.items.t = "list"
    /\ \E k \in DOMAIN frame[1].data.items.a : ProperItem(frame[1].data.items.a[k])

\* the totals owed to the lookups that succeeded: the k-th call belongs to
\* the k-th proper item; a failed lookup adds nothing
RECURSIVE SumSucceeded(_, _, _)
SumSucceeded(items, ucalls, acc) ==
    IF ucalls = <<>> \/ items = <<>> THEN acc
    ELSE LET reply == UsdaReply(Head(ucalls).reply)
         IN IF Head(ucalls).reply \in UsdaFailures
            THEN SumSucceeded(Tail(items), Tail(ucalls), acc)
            ELSE SumSucceeded(Tail(items), Tail(ucalls),
                     accumulate(collect_nutrients(reply.foods[1], <<>>),
                                float(Head(items).qty).val, acc))

\* C2: a failed nutrient lookup never aborts the pass: the request is never
\* answered with a server error, every proper item passed so far was looked
\* up (in order, failures before it or not), the totals are the sum over the
\* items whose lookup succeeded, and the finished request answers 200 with
\* those totals after passing every item.
C2_LookupFailureIsolated ==
    \A r \in Requests :
        (pc[r] \in {"loop", "done"} /\ ~CityBlank(frame[r].data)) =>
            LET proper == SelectSeq(PassedItems(r), ProperItem)
                ucalls == UsdaCalls(r)
            IN /\ response[r].status # 500
               /\ Len(ucalls) = Len(proper)
               /\ \A k \in DOMAIN ucalls : ucalls[k].q = strip(proper[k].name.s)
               /\ totals_mg[r] = SumSucceeded(proper, ucalls, EmptyTotals)
               /\ pc[r] = "done" =>
                    /\ response[r].status = 200
                    /\ frame[r].i = Len(frame[r].items) + 1
                    /\ response[r].total_nutrients = human_totals(totals_mg[r])

\* a finished request whose first lookup failed and whose second succeeded
C2_Witness ==
    /\ pc[1] = "done"
    /\ response[1].status = 200
    /\ Len(UsdaCalls(1)) = 2
    /\ UsdaCalls(1)[1].reply \in UsdaFailures
    /\ UsdaCalls(1)[2].reply = "protein_iron"
    /\ "Protein" \in DOMAIN response[1].total_nutrients

\* the tracked categories, in the order the matcher is to try them
TrackedOrder == <<"Protein", "Vitamin C", "Iron", "Calcium", "Fiber">>
Tracked == {TrackedOrder[k] : k \in DOMAIN TrackedOrder}

\* the positions in TrackedOrder whose category has a trigger inside the
\* lowercased name
TriggeredAt(name) ==
    LET low == lower(name)
    IN {k \in DOMAIN TrackedOrder :
          \E m \in DOMAIN NUTRIENT_KEY_MAP :
              /\ NUTRIENT_KEY_MAP[m].friendly = TrackedOrder[k]
              /\ \E j \in DOMAIN NUTRIENT_KEY_MAP[m].substrings :
                     Contains(NUTRIENT_KEY_MAP[m].substrings[j], low)}

\* the totals after the samples of one lookup, each sample added to the
\* first triggered category only and dropped when it triggers none
RECURSIVE AddFirstTriggered(_, _, _)
AddFirstTriggered(nut, qty_g, acc) ==
    IF nut = <<>> THEN acc
    ELSE LET e == Head(nut)
             hits == TriggeredAt(e.name)
         IN IF hits = {}
            THEN AddFirstTriggered(Tail(nut), qty_g, acc)
            ELSE LET first == TrackedOrder[CHOOSE k \in hits : \A h \in hits : k <= h]
                     amount == convert_to_mg(Scaled(e.val, qty_g), e.unit)
                 IN AddFirstTriggered(Tail(nut), qty_g,
                        [x \in DOMAIN acc \cup {first} |->
                            IF x = first THEN TotalGet(acc, first) + amount ELSE acc[x]])

RECURSIVE TotalsByFirstTrigger(_, _, _)
TotalsByFirstTrigger(items, ucalls, acc) ==
    IF ucalls = <<>> \/ items = <<>> THEN acc
    ELSE TotalsByFirstTrigger(Tail(items), Tail(ucalls),
             AddFirstTriggered(get_food_nutrients(UsdaReply(Head(ucalls).reply)).val,
                               float(Head(items).qty).val, acc))

\* C8: at every point of a pass the keys of the totals map are among the
\* five tracked categories, and the map is what results when every sample
\* is added to the first category (Protein, Vitamin C, Iron, Calcium, Fiber)
\* with a trigger in its lowercased name and a sample with none is dropped.
C8_KeysClosedFirstMatch ==
    \A r \in Requests :
        /\ DOMAIN totals_mg[r] \subseteq Tracked
        /\ pc[r] \in {"loop", "done"} =>
              totals_mg[r] = TotalsByFirstTrigger(SelectSeq(PassedItems(r), ProperItem),
                                                  UsdaCalls(r), EmptyTotals)

\* a pass that met a name triggering two categories ("Iron protein") and
\* names triggering none, and filed the first under Protein only
C8_Witness ==
    /\ pc[1] = "loop"
    /\ Len(UsdaCalls(1)) = 1
    /\ UsdaCalls(1)[1].reply = "mixed"
    /\ TriggeredAt(s_IronProtein) = {1, 3}
    /\ TriggeredAt(s_KCAL) = {}
    /\ DOMAIN totals_mg[1] = Tracked \ {"Iron"}

\* C9: an item whose name is blank or whose quantity is zero, negative or
\* not a number is passed over in one step that issues no call, leaves the
\* totals and the answer as they are and moves on to the next item.
C9_BadItemSkipped ==
    [][\A r \in Requests :
          (/\ pc[r] = "loop"
           /\ frame[r].i <= Len(frame[r].items)
           /\ ~ProperItem(frame[r].items[frame[r].i])
           /\ <<pc[r], frame[r], totals_mg[r], calls[r], response[r]>>
                # <<pc'[r], frame'[r], totals_mg'[r], calls'[r], response'[r]>>)
          => /\ frame'[r] = [frame[r] EXCEPT !.i = @ + 1]
             /\ pc'[r] = "loop"
             /\ calls'[r] = calls[r]
             /\ totals_mg'[r] = totals_mg[r]
             /\ response'[r] = response[r]]_vars

\* a finished request that passed over a bad first item and looked up the next
C9_Witness ==
    /\ pc[1] = "done"
    /\ response[1].status = 200
    /\ Len(frame[1].items) = 2
    /\ ~ProperItem(frame[1].items[1])
    /\ ProperItem(frame[1].items[2])
    /\ Len(UsdaCalls(1)) = 1
    /\ UsdaCalls(1)[1].reply = "protein_iron"
    /\ "Iron" \in DOMAIN totals_mg[1]

\* The totals of a pass over `items` run on its own, the lookups answered
\* by `replies` in order
RECURSIVE AloneTotals(_, _, _)
AloneTotals(items, replies, acc) ==
    IF items = <<>> THEN acc
    ELSE LET name == item_name(Head(items))
             qty_g == item_qty(Head(items))
         IN IF skipped(name, qty_g) \/ replies = <<>>
            THEN AloneTotals(Tail(items), replies, acc)
            ELSE AloneTotals(Tail(items), Tail(replies),
                     accumulate(get_food_nutrients(UsdaReply(Head(replies))).val,
                                qty_g, acc))

\* The answer of a request run on its own: the body, the weather service's
\* answer (if it was asked) and the food service's answers in order
AloneResponse(body, wcalls, ucalls) ==
    LET w == IF wcalls = <<>> THEN DefaultWeather
             ELSE get_weather(TRUE, WeatherReply(wcalls[1].reply)).val
        items == IF body.items.t = "absent" THEN <<>> ELSE body.items.a
        gender == IF body.gender.t = "absent" THEN s_male ELSE body.gender.s
        totals == AloneTotals(items, [k \in DOMAIN ucalls |-> ucalls[k].reply],
                              EmptyTotals)
        defic == calculate_deficiency(totals, gender, float_or_zero(Get(body.height)),
                                      float_or_zero(Get(body.weight)))
    IN [status |-> 200, error |-> "", weather |-> w,
        total_nutrients |-> human_totals(totals), deficient |-> defic,
        recommendations |-> recommend_foods(ReportKeys(defic), WeatherDict(w))]

\* C10: the aggregation state is local to a request: a pass starts from the
\* empty totals map, and under every interleaving of the requests' steps
\* each finished request answers exactly what it answers when run alone
\* on its own body and its own providers' answers.
C10_RequestLocalTotals ==
    \A r \in Requests :
        /\ (pc[r] = "loop" /\ UsdaCalls(r) = <<>>) =>
              totals_mg[totals_scope(r)] = EmptyTotals
        /\ (pc[r] = "done" /\ response[r].status = 200) =>
              response[r] = AloneResponse(frame[r].data, WeatherCalls(r), UsdaCalls(r))

\* two requests in the middle of their loops at once, with different totals,
\* one of which goes on to finish
C10_Witness ==
    /\ pc[1] = "done"
    /\ response[1].status = 200
    /\ pc[2] = "loop"
    /\ Len(UsdaCalls(1)) = 2
    /\ Len(UsdaCalls(2)) = 1
    /\ frame[2].i = 2
    /\ frame[2].i <= Len(frame[2].items)
    /\ totals_mg[1] # EmptyTotals
    /\ totals_mg[2] # EmptyTotals
    /\ totals_mg[1] # totals_mg[2]

---------------------------------------------------------------------------
(* Properties of recommend_foods *)

\* the table pairs of the report's categories in report order, then the two
\* weather foods as pairs
RECURSIVE TablePairs(_)
TablePairs(keys) == IF keys = <<>> THEN <<>> ELSE base(Head(keys)) \o TablePairs(Tail(keys))

WeatherPairs(w) ==
    IF w.t = "dict" /\ "temp" \in w.keys /\ w.temp > 30
    THEN << <<"Cucumber", "-">>, <<"Yogurt", "-">> >>
    ELSE << <<"Soup", "-">>, <<"Eggs", "-">> >>

FirstN(seq, n) == [k \in 1..(IF Len(seq) < n THEN Len(seq) ELSE n) |-> seq[k]]

\* C3: recommend returns exactly the first 10 entries of: the three table
\* pairs of each category of the report, in report order, then the two
\* weather foods as (name, "-") pairs, Cucumber and Yogurt when weather is
\* present with temp > 30 and Soup and Eggs otherwise.
C3_ExactSequence ==
    rc.stage = "out" => rc.out = FirstN(TablePairs(rc.keys) \o WeatherPairs(rc.weather), 10)

\* C4: the list recommend returns never has more than 10 entries.
C4_AtMostTen == rc.stage = "out" => Len(rc.out) <= 10

\* all five categories deficient: 17 entries cut to 10
C4_Witness ==
    /\ rc.stage = "out"
    /\ Len(rc.keys) = 5
    /\ Len(rc.out) = 10
    /\ rc.out[10] = base(rc.keys[4])[1]

\* the weather foods of the call, and the two ways a food can be in the
\* list: under its name, or as one of the entries appended for the weather
WeatherFood(k) == temp_foods(rc.weather)[k]
Named(f) == \E k \in DOMAIN rc.out : rc.out[k][1] = f
WeatherEntry(f) == \E k \in DOMAIN rc.out : rc.out[k] = <<f, "-", "-">>

\* the fourth category of the report keeps its first table entry, as the
\* tenth and last entry of the list, and loses the other two
FourthCutAfterFirst ==
    LET fourth == base(rc.keys[4])
    IN /\ Len(rc.out) = 10
       /\ rc.out[10] = fourth[1]
       /\ \A k \in DOMAIN rc.out : rc.out[k] # fourth[2] /\ rc.out[k] # fourth[3]

\* C11: both weather foods appear in the recommendations if and only if at
\* most 2 categories are deficient; with exactly 3 deficient categories only
\* the first weather food (Cucumber or Soup) appears; with 4 or 5 no weather
\* food appears and the fourth category is cut after its first entry.
C11_WeatherFoodsByCount ==
    rc.stage = "out" =>
        LET n == Len(rc.keys)
        IN /\ (Named(WeatherFood(1)) /\ Named(WeatherFood(2))) <=> n <= 2
           /\ n = 3 => (Named(WeatherFood(1)) /\ ~Named(WeatherFood(2)))
           /\ n >= 4 => /\ ~Named(WeatherFood(1))
                        /\ ~Named(WeatherFood(2))
                        /\ FourthCutAfterFirst

\* C11, amended: the same statement about the entries appended for the
\* weather: both are in the list if and only if at most 2 categories are
\* deficient; with exactly 3 only the first (Cucumber or Soup) is; with 4 or
\* 5 neither is, and the fourth category is cut after its first entry. (The
\* food Eggs, the second weather food of cool weather, may still be in the
\* list as the table entry of Protein.)
C11_WeatherEntriesByCount ==
    rc.stage = "out" =>
        LET n == Len(rc.keys)
        IN /\ (WeatherEntry(WeatherFood(1)) /\ WeatherEntry(WeatherFood(2))) <=> n <= 2
           /\ n = 3 => (WeatherEntry(WeatherFood(1)) /\ ~WeatherEntry(WeatherFood(2)))
           /\ n >= 4 => /\ ~WeatherEntry(WeatherFood(1))
                        /\ ~WeatherEntry(WeatherFood(2))
                        /\ FourthCutAfterFirst

\* cool weather and four deficient categories, Protein among them: no
\* weather entry is left, the fourth category is cut, Eggs is still named
C11_Witness ==
    /\ rc.stage = "out"
    /\ ev.stage = "out"
    /\ rc.keys = <<"Protein", "Fiber", "Vitamin C", "Calcium">>
    /\ WeatherFood(2) = "Eggs"
    /\ rc.out[10] = <<"Milk", "120 mg">>
    /\ Named("Eggs")
    /\ ~WeatherEntry("Eggs")

---------------------------------------------------------------------------
(* Properties of calculate_deficiency *)

BaselineKey(c) ==
    CASE c = "Protein" -> "Protein_g" [] c = "Fiber" -> "Fiber_g"
      [] c = "Vitamin C" -> "Vitamin_C_mg" [] c = "Iron" -> "Iron_mg"
      [] c = "Calcium" -> "Calcium_mg"

EvTotal(c) == IF c \in DOMAIN ev.totals THEN ev.totals[c] ELSE 0

\* total < 60% of the adjusted baseline; ev.baseline holds the baseline x 100,
\* a gram baseline is worth 1000 mg per gram
Below60(c) ==
    IF c \in {"Protein", "Fiber"}
    THEN EvTotal(c) * 100 * 10 < ev.baseline[BaselineKey(c)] * 1000 * 6
    ELSE EvTotal(c) * 100 * 10 < ev.baseline[BaselineKey(c)] * 6

\* C5: a tracked category is in the deficiency report exactly when its total
\* (0 when the totals map lacks it) is strictly below 60% of its adjusted
\* baseline, grams taken as 1000 mg; the report names nothing else and no
\* category twice.
C5_ReportIffBelow60 ==
    ev.stage = "out" =>
        /\ \A c \in Tracked : (\E k \in DOMAIN ev.report : ev.report[k].key = c) <=> Below60(c)
        /\ \A k \in DOMAIN ev.report : ev.report[k].key \in Tracked
        /\ \A a, b \in DOMAIN ev.report : a # b => ev.report[a].key # ev.report[b].key

\* no BMI adjustment; protein and vitamin C exactly at their thresholds are
\* left out, fiber one milligram below its threshold and calcium missing
\* from the totals are reported
C5_Witness ==
    /\ ev.stage = "out"
    /\ ev.height = 200 /\ ev.weight = 80
    /\ DOMAIN ev.totals = {"Protein", "Fiber", "Vitamin C", "Iron"}
    /\ ev.totals["Protein"] = 30000
    /\ ev.totals["Fiber"] = 17999
    /\ ev.totals["Vitamin C"] = 54
    /\ ReportKeys(ev.report) = <<"Fiber", "Calcium">>

\* C6: the baselines are multiplied by 1.10 exactly when 0 < BMI < 18.5, by
\* 0.90 exactly when BMI > 25, and left alone otherwise (BMI exactly 18.5 or
\* 25, or height_cm <= 0 giving BMI 0); never both.
\* BMI = weight_kg * 10000 / height_cm^2 for height_cm > 0.
C6_BmiBrackets ==
    ev.stage = "out" =>
        LET h2 == ev.height * ev.height
            w4 == ev.weight * 10000
            under == ev.height > 0 /\ 0 < w4 /\ 2 * w4 < 37 * h2
            over == ev.height > 0 /\ w4 > 25 * h2
            d == BaselineDefaults(ev.gender)
        IN /\ ~(under /\ over)
           /\ (ev.baseline = [k \in DOMAIN d |-> d[k] * 11]) <=> under
           /\ (ev.baseline = [k \in DOMAIN d |-> d[k] * 9]) <=> over
           /\ (ev.baseline = [k \in DOMAIN d |-> d[k] * 10]) <=> (~under /\ ~over)

---------------------------------------------------------------------------
(* The grocery-list endpoint *)

InitGrocery ==
    /\ WEATHER_API_KEY = FALSE
    /\ GROQ_API_KEY \in BOOLEAN
    /\ pc = [r \in Requests |-> "idle"]
    /\ frame = [r \in Requests |-> NoFrame]
    /\ weather = [r \in Requests |-> DefaultWeather]
    /\ totals_mg = [r \in Requests |-> EmptyTotals]
    /\ calls = [r \in Requests |-> <<>>]
    /\ response = [r \in Requests |-> NoResponse]
    /\ ev = EvIdle
    /\ rc = RcIdle
    /\ gl = GlIdle

NextGrocery == GroceryBegin \/ GroceryReply

SpecGrocery == InitGrocery /\ [][NextGrocery]_vars

\* the provider's text, read on its own terms: it is well-formed when, code
\* fence aside, it is one JSON array whose elements are objects that carry
\* category, name and quantity
WellFormedList(content) ==
    LET text == strip_code_fence(strip_pieces(content))
        body == SelectSeq(text, LAMBDA x : x.k # "space")
    IN /\ Len(body) = 1
       /\ body[1].k = "json"
       /\ body[1].v.t = "list"
       /\ \A i \in DOMAIN body[1].v.a :
             /\ body[1].v.a[i].t = "obj"
             /\ {"category", "name", "quantity"} \subseteq body[1].v.a[i].keys

\* C7: when the provider call succeeds but its text is not JSON, not a JSON
\* list, or a list with an element lacking category, name or quantity, the
\* endpoint answers 200 with the fixed fallback list (at least 5 items, more
\* than one category) and the fallback flag, never an error.
C7_FallbackOnBadOutput ==
    (/\ gl.stage = "done"
     /\ gl.reply.kind = "ok"
     /\ gl.reply.has_content
     /\ ~WellFormedList(gl.reply.content))
    => /\ gl.answer.status = 200
       /\ gl.answer.grocery_list = fallback_list
       /\ Len(gl.answer.grocery_list) >= 5
       /\ Cardinality({gl.answer.grocery_list[i].category :
                          i \in DOMAIN gl.answer.grocery_list}) > 1
       /\ gl.answer.note # ""

====
